---- MODULE Spec2Model ----
(***************************************************************************)
(* Underwriting guardrails of the loan-underwriting backend:               *)
(* server/services/underwriting.py (UnderwritingGuardrails) and its        *)
(* callers in server/routes/underwriting.py.                               *)
(*                                                                         *)
(* Number representation.  The code computes in Python floats.  Here       *)
(*   - money inputs (revenue, balance, deal amount) are whole dollars;     *)
(*   - risk scores are hundredths (0.3 is 30): every increment of the      *)
(*     code is a multiple of 0.05, and for every combination of            *)
(*     increments the float sum compares with 0.6, 0.8 and 1.0 exactly as  *)
(*     the exact sum does;                                                 *)
(*   - ratios and thresholds are exact fractions <<num, den>>, den > 0;    *)
(*   - max_offer_amount is in tenths of a dollar, so that revenue * 0.5,   *)
(*     * 0.8 and * 1.2 are exact; None is <<>> and a value v is <<v>>;     *)
(*   - fee rates are hundredths (1.15 is 115).                             *)
(***************************************************************************)
EXTENDS Integers, Sequences, FiniteSets, TLC

(* ---------------- bounds of the explored inputs ---------------- *)
MaxNsf == 9
MaxNegativeDays == 16

Revenues == {0, 4000, 10000, 15000, 20000, 85000, 200000}
Balances == {-1000, 4000, 5000, 6000, 15000}
NsfCounts == 0..MaxNsf
NegativeDays == {3} \cup (15..MaxNegativeDays)
States == {"CA", "NY", "ca"}

MetricsInputs ==
    [avg_monthly_revenue : Revenues, avg_daily_balance_3m : Balances,
     total_nsf_3m : NsfCounts, total_days_negative_3m : NegativeDays]

(* ---------------- exact fractions ---------------- *)
Rat(n, d) == <<n, d>>
RatInt(n) == <<n, 1>>
(* a < b, compared by integer parts and then by the inverted remainders (as in
   a continued-fraction expansion), so that no product leaves the range of the
   32-bit integers of TLC *)
RECURSIVE RatLess(_, _)
RatLess(a, b) ==
    LET qa == a[1] \div a[2]
        qb == b[1] \div b[2]
        ra == a[1] % a[2]
        rb == b[1] % b[2]
    IN IF qa # qb THEN qa < qb
       ELSE IF rb = 0 THEN FALSE
       ELSE IF ra = 0 THEN TRUE
       ELSE RatLess(<<b[2], rb>>, <<a[2], ra>>)
RatGreater(a, b) == RatLess(b, a)

(* ---------------- enumerations and constants of the service ---------------- *)
APPROVED == "approved"
DECLINED == "declined"
MANUAL_REVIEW == "manual_review"
CONDITIONAL == "conditional"

INFO == "info"
WARNING == "warning"
CRITICAL == "critical"

MAX_ANNUAL_FEE_RATE == Rat(36, 100)
MIN_REVENUE_REQUIREMENT == 50000
MAX_NSF_RATIO == Rat(5, 100)
HIGH_RISK_NSF_THRESHOLD == 8

None == <<>>
Some(v) == <<v>>

(* self.rules, built in __init__ and never written afterwards *)
rules ==
    [ min_monthly_revenue |-> [threshold |-> RatInt(15000), severity |-> CRITICAL],
      min_annual_revenue |-> [threshold |-> RatInt(180000), severity |-> CRITICAL],
      max_nsf_3m |-> [threshold |-> RatInt(5), severity |-> CRITICAL],
      max_nsf_ratio |-> [threshold |-> Rat(3, 100), severity |-> WARNING],
      min_avg_balance |-> [threshold |-> RatInt(5000), severity |-> WARNING],
      balance_to_revenue_ratio |-> [threshold |-> Rat(5, 100), severity |-> WARNING],
      max_negative_days_3m |-> [threshold |-> RatInt(15), severity |-> CRITICAL],
      max_consecutive_negative_days |-> [threshold |-> RatInt(7), severity |-> WARNING],
      ca_min_revenue |-> [threshold |-> RatInt(MIN_REVENUE_REQUIREMENT), severity |-> CRITICAL],
      ca_max_nsf_ratio |-> [threshold |-> MAX_NSF_RATIO, severity |-> CRITICAL],
      max_daily_payment_ratio |-> [threshold |-> Rat(15, 100), severity |-> WARNING],
      max_total_exposure |-> [threshold |-> RatInt(2), severity |-> WARNING] ]

RuleViolation(rule_id, description, severity, actual_value, threshold_value, field_name) ==
    [rule_id |-> rule_id, description |-> description, severity |-> severity,
     actual_value |-> actual_value, threshold_value |-> threshold_value,
     field_name |-> field_name]

(* a violation of a catalogue rule, as each check of evaluate_metrics builds it *)
CatalogViolation(rule_id, description, actual_value, field_name) ==
    RuleViolation(rule_id, description, rules[rule_id].severity, actual_value,
                  rules[rule_id].threshold, field_name)

HIGH_RISK_REASON == "High NSF count triggers CA high-risk classification"

(* ---------------- evaluate_metrics, block by block ---------------- *)
Max(a, b) == IF a > b THEN a ELSE b
Min(a, b) == IF a < b THEN a ELSE b

(* nsf_ratio = nsf_count / 90 if nsf_count > 0 else 0 *)
NsfRatio(nsf_count) == IF nsf_count > 0 THEN Rat(nsf_count, 90) ELSE RatInt(0)

BalanceToRevenueRatio_one_without_revenue(daily_balance, monthly_revenue) ==
    IF monthly_revenue > 0 THEN Rat(daily_balance, monthly_revenue) ELSE RatInt(1)

(* balance_to_revenue_ratio = daily_balance / monthly_revenue if monthly_revenue > 0 else 0 *)
BalanceToRevenueRatio(daily_balance, monthly_revenue) ==
    IF monthly_revenue > 0 THEN Rat(daily_balance, monthly_revenue) ELSE RatInt(0)

RevenueChecks_annual_adds(monthly_revenue, annual_revenue) ==
    LET low_monthly == RatLess(RatInt(monthly_revenue), rules["min_monthly_revenue"].threshold)
        low_annual == RatLess(RatInt(annual_revenue), rules["min_annual_revenue"].threshold)
    IN [violations |->
            (IF low_monthly
             THEN <<CatalogViolation("min_monthly_revenue", "Monthly revenue below minimum threshold",
                                     RatInt(monthly_revenue), "avg_monthly_revenue")>>
             ELSE <<>>)
            \o
            (IF low_annual
             THEN <<CatalogViolation("min_annual_revenue", "Annual revenue below minimum threshold",
                                     RatInt(annual_revenue), "annual_revenue")>>
             ELSE <<>>),
        risk |-> (IF low_monthly THEN 30 ELSE 0) + (IF low_annual THEN 30 ELSE 0)]

(* "Check revenue requirements": two checks, only the first adds risk *)
RevenueChecks(monthly_revenue, annual_revenue) ==
    LET low_monthly == RatLess(RatInt(monthly_revenue), rules["min_monthly_revenue"].threshold)
        low_annual == RatLess(RatInt(annual_revenue), rules["min_annual_revenue"].threshold)
    IN [violations |->
            (IF low_monthly
             THEN <<CatalogViolation("min_monthly_revenue", "Monthly revenue below minimum threshold",
                                     RatInt(monthly_revenue), "avg_monthly_revenue")>>
             ELSE <<>>)
            \o
            (IF low_annual
             THEN <<CatalogViolation("min_annual_revenue", "Annual revenue below minimum threshold",
                                     RatInt(annual_revenue), "annual_revenue")>>
             ELSE <<>>),
        risk |-> IF low_monthly THEN 30 ELSE 0]

NsfChecks_ratio_first(nsf_count, nsf_ratio) ==
    LET many == RatGreater(RatInt(nsf_count), rules["max_nsf_3m"].threshold)
        dense == RatGreater(nsf_ratio, rules["max_nsf_ratio"].threshold)
    IN [violations |->
            (IF dense
             THEN <<CatalogViolation("max_nsf_ratio", "NSF ratio too high",
                                     nsf_ratio, "nsf_ratio")>>
             ELSE <<>>)
            \o
            (IF many
             THEN <<CatalogViolation("max_nsf_3m", "NSF count exceeds maximum threshold",
                                     RatInt(nsf_count), "total_nsf_3m")>>
             ELSE <<>>),
        risk |-> (IF many THEN 25 ELSE 0) + (IF dense THEN 15 ELSE 0)]

(* "Check NSF limits" *)
NsfChecks(nsf_count, nsf_ratio) ==
    LET many == RatGreater(RatInt(nsf_count), rules["max_nsf_3m"].threshold)
        dense == RatGreater(nsf_ratio, rules["max_nsf_ratio"].threshold)
    IN [violations |->
            (IF many
             THEN <<CatalogViolation("max_nsf_3m", "NSF count exceeds maximum threshold",
                                     RatInt(nsf_count), "total_nsf_3m")>>
             ELSE <<>>)
            \o
            (IF dense
             THEN <<CatalogViolation("max_nsf_ratio", "NSF ratio too high",
                                     nsf_ratio, "nsf_ratio")>>
             ELSE <<>>),
        risk |-> (IF many THEN 25 ELSE 0) + (IF dense THEN 15 ELSE 0)]

BalanceChecks_same_rule_id(daily_balance, balance_to_revenue_ratio) ==
    LET low_balance == RatLess(RatInt(daily_balance), rules["min_avg_balance"].threshold)
        low_ratio == RatLess(balance_to_revenue_ratio, rules["balance_to_revenue_ratio"].threshold)
    IN [violations |->
            (IF low_balance
             THEN <<CatalogViolation("min_avg_balance", "Average daily balance too low",
                                     RatInt(daily_balance), "avg_daily_balance_3m")>>
             ELSE <<>>)
            \o
            (IF low_ratio
             THEN <<CatalogViolation("min_avg_balance", "Balance to revenue ratio too low",
                                     balance_to_revenue_ratio, "balance_to_revenue_ratio")>>
             ELSE <<>>),
        risk |-> (IF low_balance THEN 20 ELSE 0) + (IF low_ratio THEN 15 ELSE 0)]

(* "Check balance requirements" *)
BalanceChecks(daily_balance, balance_to_revenue_ratio) ==
    LET low_balance == RatLess(RatInt(daily_balance), rules["min_avg_balance"].threshold)
        low_ratio == RatLess(balance_to_revenue_ratio, rules["balance_to_revenue_ratio"].threshold)
    IN [violations |->
            (IF low_balance
             THEN <<CatalogViolation("min_avg_balance", "Average daily balance too low",
                                     RatInt(daily_balance), "avg_daily_balance_3m")>>
             ELSE <<>>)
            \o
            (IF low_ratio
             THEN <<CatalogViolation("balance_to_revenue_ratio", "Balance to revenue ratio too low",
                                     balance_to_revenue_ratio, "balance_to_revenue_ratio")>>
             ELSE <<>>),
        risk |-> (IF low_balance THEN 20 ELSE 0) + (IF low_ratio THEN 15 ELSE 0)]

NegativeDaysCheck_inverted(negative_days) ==
    LET too_many == RatLess(RatInt(negative_days), rules["max_negative_days_3m"].threshold)
    IN [violations |->
            IF too_many
            THEN <<CatalogViolation("max_negative_days_3m", "Too many negative balance days",
                                    RatInt(negative_days), "total_days_negative_3m")>>
            ELSE <<>>,
        risk |-> IF too_many THEN 30 ELSE 0]

(* "Check negative balance limits" *)
NegativeDaysCheck(negative_days) ==
    LET too_many == RatGreater(RatInt(negative_days), rules["max_negative_days_3m"].threshold)
    IN [violations |->
            IF too_many
            THEN <<CatalogViolation("max_negative_days_3m", "Too many negative balance days",
                                    RatInt(negative_days), "total_days_negative_3m")>>
            ELSE <<>>,
        risk |-> IF too_many THEN 30 ELSE 0]

CAMinRevenueBreached_monthly(annual_revenue) ==
    annual_revenue \div 12 < MIN_REVENUE_REQUIREMENT

(* the two CA limits, inside "if state == 'CA'" *)
CAMinRevenueBreached(annual_revenue) == annual_revenue < MIN_REVENUE_REQUIREMENT

CAMaxNsfRatioBreached_base_limit(nsf_ratio) ==
    RatGreater(nsf_ratio, rules["max_nsf_ratio"].threshold)

CAMaxNsfRatioBreached(nsf_ratio) == RatGreater(nsf_ratio, MAX_NSF_RATIO)

HighRiskNsf_from_three(state_code, nsf_count) ==
    state_code = "CA" /\ nsf_count >= 3

HighRiskNsf_above(state_code, nsf_count) ==
    state_code = "CA" /\ nsf_count > HIGH_RISK_NSF_THRESHOLD

(* the high-risk NSF signal: last statement of the "if state == 'CA'" block *)
HighRiskNsf(state_code, nsf_count) ==
    state_code = "CA" /\ nsf_count >= HIGH_RISK_NSF_THRESHOLD

CACompliantDefault_only_ca(state_code) == state_code = "CA"

(* ca_compliant = True before the CA block *)
CACompliantDefault(state_code) == TRUE

CAComplianceChecks_any_case(state_code, annual_revenue, nsf_ratio, nsf_count) ==
    LET in_ca == state_code \in {"CA", "ca"}
        low_revenue == in_ca /\ CAMinRevenueBreached(annual_revenue)
        high_ratio == in_ca /\ CAMaxNsfRatioBreached(nsf_ratio)
        high_risk == HighRiskNsf(state_code, nsf_count)
    IN [violations |->
            (IF low_revenue
             THEN <<RuleViolation("ca_min_revenue", "Does not meet CA minimum revenue requirement",
                                  CRITICAL, RatInt(annual_revenue),
                                  RatInt(MIN_REVENUE_REQUIREMENT), "annual_revenue")>>
             ELSE <<>>)
            \o
            (IF high_ratio
             THEN <<RuleViolation("ca_max_nsf_ratio", "NSF ratio exceeds CA compliance limit",
                                  CRITICAL, nsf_ratio, MAX_NSF_RATIO, "nsf_ratio")>>
             ELSE <<>>),
        ca_compliant |-> IF low_revenue \/ high_ratio THEN FALSE ELSE CACompliantDefault(state_code),
        reasons |-> IF high_risk THEN <<HIGH_RISK_REASON>> ELSE <<>>,
        risk |-> IF high_risk THEN 20 ELSE 0]

(* "CA-specific compliance checks" *)
CAComplianceChecks(state_code, annual_revenue, nsf_ratio, nsf_count) ==
    LET in_ca == state_code = "CA"
        low_revenue == in_ca /\ CAMinRevenueBreached(annual_revenue)
        high_ratio == in_ca /\ CAMaxNsfRatioBreached(nsf_ratio)
        high_risk == HighRiskNsf(state_code, nsf_count)
    IN [violations |->
            (IF low_revenue
             THEN <<RuleViolation("ca_min_revenue", "Does not meet CA minimum revenue requirement",
                                  CRITICAL, RatInt(annual_revenue),
                                  RatInt(MIN_REVENUE_REQUIREMENT), "annual_revenue")>>
             ELSE <<>>)
            \o
            (IF high_ratio
             THEN <<RuleViolation("ca_max_nsf_ratio", "NSF ratio exceeds CA compliance limit",
                                  CRITICAL, nsf_ratio, MAX_NSF_RATIO, "nsf_ratio")>>
             ELSE <<>>),
        ca_compliant |-> IF low_revenue \/ high_ratio THEN FALSE ELSE CACompliantDefault(state_code),
        reasons |-> IF high_risk THEN <<HIGH_RISK_REASON>> ELSE <<>>,
        risk |-> IF high_risk THEN 20 ELSE 0]

(* "Determine decision": which branch of the if/elif chain is taken; the chain
   reads the risk score before the cap *)
ResolveDecision_inclusive(violations, ca_compliant, risk_score) ==
    LET critical_violations == SelectSeq(violations, LAMBDA v : v.severity = CRITICAL)
        warning_violations == SelectSeq(violations, LAMBDA v : v.severity = WARNING)
    IN IF critical_violations # <<>> \/ ~ca_compliant THEN DECLINED
       ELSE IF Len(warning_violations) >= 3 \/ risk_score >= 80 THEN MANUAL_REVIEW
       ELSE IF risk_score >= 60 THEN CONDITIONAL
       ELSE APPROVED

ResolveDecision(violations, ca_compliant, risk_score) ==
    LET critical_violations == SelectSeq(violations, LAMBDA v : v.severity = CRITICAL)
        warning_violations == SelectSeq(violations, LAMBDA v : v.severity = WARNING)
    IN IF critical_violations # <<>> \/ ~ca_compliant THEN DECLINED
       ELSE IF Len(warning_violations) >= 3 \/ risk_score > 80 THEN MANUAL_REVIEW
       ELSE IF risk_score > 60 THEN CONDITIONAL
       ELSE APPROVED

(* the summary reason each branch appends *)
DecisionReason(decision) ==
    CASE decision = DECLINED -> "Critical underwriting violations or compliance issues"
      [] decision = MANUAL_REVIEW -> "Multiple warnings or high risk score requires manual review"
      [] decision = CONDITIONAL -> "Moderate risk - conditional approval with limits"
      [] decision = APPROVED -> "Meets all underwriting requirements"

MaxOfferAmount_withheld(decision, monthly_revenue) ==
    CASE decision = DECLINED -> None
      [] decision = MANUAL_REVIEW -> None
      [] decision = CONDITIONAL -> Some(monthly_revenue * 8)
      [] decision = APPROVED -> Some(monthly_revenue * 12)

MaxOfferAmount_swapped(decision, monthly_revenue) ==
    CASE decision = DECLINED -> None
      [] decision = MANUAL_REVIEW -> Some(monthly_revenue * 8)
      [] decision = CONDITIONAL -> Some(monthly_revenue * 5)
      [] decision = APPROVED -> Some(monthly_revenue * 12)

(* the max_offer_amount each branch sets, in tenths of a dollar *)
MaxOfferAmount(decision, monthly_revenue) ==
    CASE decision = DECLINED -> None
      [] decision = MANUAL_REVIEW -> Some(monthly_revenue * 5)
      [] decision = CONDITIONAL -> Some(monthly_revenue * 8)
      [] decision = APPROVED -> Some(monthly_revenue * 12)

DetermineDecision(violations, ca_compliant, risk_score, monthly_revenue) ==
    LET decision == ResolveDecision(violations, ca_compliant, risk_score)
    IN [decision |-> decision,
        reason |-> DecisionReason(decision),
        max_offer_amount |-> MaxOfferAmount(decision, monthly_revenue)]

CapRiskScore_max(risk_score) == Max(risk_score, 100)

CapRiskScore_at_conditional(risk_score) == Min(risk_score, 60)

(* "Cap risk score": risk_score = min(risk_score, 1.0) *)
CapRiskScore(risk_score) == Min(risk_score, 100)

(* evaluate_metrics: .result is the UnderwritingResult, .risk_local the local
   risk_score as the decision chain reads it, before the cap *)
evaluate_metrics(m, state_code) ==
    LET monthly_revenue == m.avg_monthly_revenue
        annual_revenue == monthly_revenue * 12
        daily_balance == m.avg_daily_balance_3m
        nsf_count == m.total_nsf_3m
        negative_days == m.total_days_negative_3m
        nsf_ratio == NsfRatio(nsf_count)
        balance_to_revenue_ratio == BalanceToRevenueRatio(daily_balance, monthly_revenue)
        rev == RevenueChecks(monthly_revenue, annual_revenue)
        nsf == NsfChecks(nsf_count, nsf_ratio)
        bal == BalanceChecks(daily_balance, balance_to_revenue_ratio)
        neg == NegativeDaysCheck(negative_days)
        ca == CAComplianceChecks(state_code, annual_revenue, nsf_ratio, nsf_count)
        violations == rev.violations \o nsf.violations \o bal.violations
                      \o neg.violations \o ca.violations
        risk_score == 30 + rev.risk + nsf.risk + bal.risk + neg.risk + ca.risk
        d == DetermineDecision(violations, ca.ca_compliant, risk_score, monthly_revenue)
    IN [result |->
            [decision |-> d.decision,
             violations |-> violations,
             max_offer_amount |-> d.max_offer_amount,
             risk_score |-> CapRiskScore(risk_score),
             reasons |-> ca.reasons \o <<d.reason>>,
             ca_compliant |-> ca.ca_compliant],
        risk_local |-> risk_score]

(* ---------------- validate_deal_terms ---------------- *)
PAYMENT_RATIO_ISSUE == "Daily payment ratio exceeds limit"
EXPOSURE_ISSUE == "Total exposure ratio exceeds limit"
CA_APR_ISSUE == "Fee rate may exceed CA APR limits"

(* Python's "/" raises ZeroDivisionError when the divisor is 0 *)
DivisionRaises(divisor) == divisor = 0

validate_deal_terms_apr_everywhere(deal_amount, fee_rate, term_days, monthly_revenue, state_code) ==
    IF DivisionRaises(term_days)
    THEN [raised |-> TRUE, valid |-> FALSE, issues |-> <<>>]
    ELSE
    LET payment_ratio == IF monthly_revenue > 0
                         THEN Rat(deal_amount * fee_rate * 3, 10 * term_days * monthly_revenue)
                         ELSE RatInt(0)
        exposure_ratio == IF monthly_revenue > 0
                          THEN Rat(deal_amount, monthly_revenue)
                          ELSE RatInt(0)
        approx_apr == Rat((fee_rate - 100) * 365, 100 * term_days)
        issues ==
            (IF RatGreater(payment_ratio, rules["max_daily_payment_ratio"].threshold)
             THEN <<PAYMENT_RATIO_ISSUE>> ELSE <<>>)
            \o
            (IF RatGreater(exposure_ratio, rules["max_total_exposure"].threshold)
             THEN <<EXPOSURE_ISSUE>> ELSE <<>>)
            \o
            (IF RatGreater(approx_apr, MAX_ANNUAL_FEE_RATE)
             THEN <<CA_APR_ISSUE>> ELSE <<>>)
    IN [raised |-> FALSE, valid |-> Len(issues) = 0, issues |-> issues]

(* UnderwritingGuardrails.validate_deal_terms; the formatted numbers inside the
   issue strings are left out.  .raised tells that the call ended in an
   exception instead of returning. *)
validate_deal_terms(deal_amount, fee_rate, term_days, monthly_revenue, state_code) ==
    IF DivisionRaises(term_days)
    THEN [raised |-> TRUE, valid |-> FALSE, issues |-> <<>>]
    ELSE
    LET \* daily_payment / daily_revenue = (amount * fee / term) / (revenue / 30);
        \* with the fee in hundredths: amount * fee * 30 / (100 * term * revenue)
        payment_ratio == IF monthly_revenue > 0
                         THEN Rat(deal_amount * fee_rate * 3, 10 * term_days * monthly_revenue)
                         ELSE RatInt(0)
        exposure_ratio == IF monthly_revenue > 0
                          THEN Rat(deal_amount, monthly_revenue)
                          ELSE RatInt(0)
        approx_apr == Rat((fee_rate - 100) * 365, 100 * term_days)
        issues ==
            (IF RatGreater(payment_ratio, rules["max_daily_payment_ratio"].threshold)
             THEN <<PAYMENT_RATIO_ISSUE>> ELSE <<>>)
            \o
            (IF RatGreater(exposure_ratio, rules["max_total_exposure"].threshold)
             THEN <<EXPOSURE_ISSUE>> ELSE <<>>)
            \o
            (IF state_code = "CA" /\ RatGreater(approx_apr, MAX_ANNUAL_FEE_RATE)
             THEN <<CA_APR_ISSUE>> ELSE <<>>)
    IN [raised |-> FALSE, valid |-> Len(issues) = 0, issues |-> issues]

(* ---------------- generate_offers (routes/offers.py) ---------------- *)
(* Tiers carry the factor in tenths (0.8 is 8), the fee in hundredths and the
   buy rate, when present, in hundredths.  Money inside the tier loop is in
   tenths of a dollar until it is rounded to whole dollars.  Of an offer the
   model keeps the fields that do not depend on float truncation: payback_amount,
   expected_margin and daily_payment (int() of float products) and the
   rationale text are left out; the random uuid is replaced by the position. *)
default_tiers ==
    << [factor |-> 8, fee |-> 115, term_days |-> 90, buy_rate |-> Some(112)],
       [factor |-> 10, fee |-> 120, term_days |-> 120, buy_rate |-> Some(116)],
       [factor |-> 12, fee |-> 125, term_days |-> 150, buy_rate |-> Some(120)] >>

(* Python truthiness of an optional number: neither None nor 0 *)
Truthy(opt) == opt # None /\ opt[1] # 0

(* a or b or 0 *)
OrElse(a, b) == IF Truthy(a) THEN a[1] ELSE IF Truthy(b) THEN b[1] ELSE 0

(* request.overrides.tiers if request.overrides and request.overrides.tiers else default_tiers *)
SelectTiers(overrides) ==
    IF overrides # None /\ overrides[1].tiers # <<>> THEN overrides[1].tiers ELSE default_tiers

(* tiers[:3] *)
FirstThree(tiers) == SubSeq(tiers, 1, Min(3, Len(tiers)))

CapBaseAmount_uncapped(base_amount, max_offer_amount) == base_amount

(* if underwriting_result.max_offer_amount: base_amount = min(base_amount, max) *)
CapBaseAmount(base_amount, max_offer_amount) ==
    IF Truthy(max_offer_amount) THEN Min(base_amount, max_offer_amount[1]) ELSE base_amount

(* the route's own "Risk scoring (simplified)", in hundredths; the tier loop
   does not read it *)
SimplifiedRiskScore(revenue, balance, nsf_count, negative_days) ==
    Min(50 + (IF nsf_count # 0 /\ nsf_count > 3 THEN 20 ELSE 0)
           + (IF negative_days # 0 /\ negative_days > 10 THEN 20 ELSE 0)
           + (IF balance # 0 /\ balance * 10 < revenue THEN 15 ELSE 0),
        100)

AdjustedAmount_half_of_risk(base_amount, underwriting_risk) ==
    Rat(base_amount * (1000 - 5 * underwriting_risk), 10000)

(* adjusted_amount = base_amount * (1 - underwriting_risk * 0.3), in dollars *)
AdjustedAmount(base_amount, underwriting_risk) ==
    Rat(base_amount * (1000 - 3 * underwriting_risk), 10000)

RoundDownToHundred_up(adjusted_amount) ==
    ((adjusted_amount[1] + adjusted_amount[2] * 100 - 1) \div (adjusted_amount[2] * 100)) * 100

(* offer_amount = math.floor(adjusted_amount / 100) * 100 *)
RoundDownToHundred(adjusted_amount) ==
    (adjusted_amount[1] \div (adjusted_amount[2] * 100)) * 100

(* the offer dict of one tier *)
OfferData(i, tier, offer_amount, underwriting_result, terms) ==
    [id |-> i,
     tier |-> i,
     amount |-> offer_amount,
     factor |-> tier.factor,
     fee |-> tier.fee,
     term_days |-> tier.term_days,
     buy_rate |-> tier.buy_rate,
     risk_score |-> underwriting_result.risk_score,
     underwriting_decision |-> underwriting_result.decision,
     terms_compliant |-> terms.valid,
     compliance_issues |-> terms.issues]

(* the amount of one tier: cap, risk adjustment, rounding *)
OfferAmount(tier, revenue, underwriting_result) ==
    RoundDownToHundred(
        AdjustedAmount(
            CapBaseAmount(revenue * tier.factor, underwriting_result.max_offer_amount),
            underwriting_result.risk_score))

ValidatedOffer_outside_ca(i, tier, revenue, offer_amount, underwriting_result) ==
    OfferData(i, tier, offer_amount, underwriting_result,
              validate_deal_terms(offer_amount, tier.fee, tier.term_days, revenue, "NY"))

ValidatedOffer(i, tier, revenue, offer_amount, underwriting_result) ==
    OfferData(i, tier, offer_amount, underwriting_result,
              validate_deal_terms(offer_amount, tier.fee, tier.term_days, revenue, "CA"))

(* a pass of the tier loop raises when validate_deal_terms raises *)
PassRaises(tier, revenue, offer_amount) ==
    validate_deal_terms(offer_amount, tier.fee, tier.term_days, revenue, "CA").raised

(* one pass of the tier loop that does not raise *)
BuildOffer(i, tier, revenue, underwriting_result) ==
    ValidatedOffer(i, tier, revenue, OfferAmount(tier, revenue, underwriting_result),
                   underwriting_result)

(* the tier loop: for i, tier in enumerate(tiers[:3]); .raised when a pass
   raises, and then no offer is returned *)
BuildOffers(tiers, revenue, underwriting_result) ==
    IF \E i \in DOMAIN FirstThree(tiers) :
           PassRaises(FirstThree(tiers)[i], revenue,
                      OfferAmount(FirstThree(tiers)[i], revenue, underwriting_result))
    THEN [raised |-> TRUE, offers |-> <<>>]
    ELSE [raised |-> FALSE,
          offers |-> [i \in DOMAIN FirstThree(tiers) |->
                          BuildOffer(i, FirstThree(tiers)[i], revenue, underwriting_result)]]

(* the metrics dict of lines 57-83: the request's fields when any of them is
   truthy (fields left out stay None), else the latest snapshot; None when
   there is no snapshot either *)
MetricFields ==
    {"avg_monthly_revenue", "avg_daily_balance_3m", "total_nsf_3m", "total_days_negative_3m"}

RequestMetrics(request, snapshot) ==
    IF \E f \in MetricFields : Truthy(request[f])
    THEN Some([f \in MetricFields |-> request[f]])
    ELSE IF snapshot # None
    THEN Some([f \in MetricFields |-> Some(snapshot[1][f])])
    ELSE None

(* evaluate_metrics compares and divides every field, which raises TypeError
   on a None *)
MetricsComplete(m) == \A f \in MetricFields : m[f] # None

PlainMetrics(m) == [f \in MetricFields |-> m[f][1]]

NoOffersResponse(kind, decision) ==
    [kind |-> kind, offers |-> <<>>, underwriting_decision |-> decision,
     risk_score |-> 0, max_offer_amount |-> None]

Offer(offer_data, deal_id) ==
    [id |-> offer_data.id, deal_id |-> deal_id, payload |-> offer_data, status |-> "pending"]

OfferGeneratedEvent(deal_id, count, decision) ==
    [type |-> "offer.generated", deal_id |-> deal_id,
     data |-> [count |-> count, underwriting_decision |-> decision]]

DecisionGate_review_proceeds(decision) ==
    IF decision = DECLINED THEN "declined" ELSE "proceed"

(* the two early returns on the evaluator's decision *)
DecisionGate(decision) ==
    IF decision = DECLINED THEN "declined"
    ELSE IF decision = MANUAL_REVIEW THEN "manual_review"
    ELSE "proceed"

NothingStoredWith(response) ==
    [response |-> response, offers_added |-> <<>>, events_added |-> <<>>]

(* lines 212-258: the Offer rows, the event and the response; nothing of it
   when the tier loop raised *)
StoreOffers(request, underwriting_result, built) ==
    IF built.raised THEN NothingStoredWith(NoOffersResponse("raised", "none"))
    ELSE [response |->
              [kind |-> "offers",
               offers |-> built.offers,
               underwriting_decision |-> underwriting_result.decision,
               risk_score |-> underwriting_result.risk_score,
               max_offer_amount |-> underwriting_result.max_offer_amount],
          offers_added |->
              [i \in DOMAIN built.offers |-> Offer(built.offers[i], request.deal_id)],
          events_added |->
              <<OfferGeneratedEvent(request.deal_id, Len(built.offers),
                                    underwriting_result.decision)>>]

(* lines 89-210: the early returns on the decision and on the revenue, then
   the tier loop *)
PriceOffers(request, revenue, underwriting_result, gate) ==
    IF gate = "declined"
    THEN NothingStoredWith([NoOffersResponse("declined", DECLINED)
                                EXCEPT !.risk_score = underwriting_result.risk_score])
    ELSE IF gate = "manual_review"
    THEN NothingStoredWith([NoOffersResponse("manual_review", MANUAL_REVIEW)
                                EXCEPT !.risk_score = underwriting_result.risk_score])
    ELSE IF revenue <= 0 THEN NothingStoredWith(NoOffersResponse("error", "none"))
    ELSE StoreOffers(request, underwriting_result,
                     BuildOffers(SelectTiers(request.overrides), revenue, underwriting_result))

EvaluateAndPrice(request, m, underwriting_result) ==
    PriceOffers(request,
                OrElse(request.avg_monthly_revenue, m.avg_monthly_revenue),
                underwriting_result,
                DecisionGate(underwriting_result.decision))

(* the handler after the idempotency check: the response, and the Offer rows
   and Event rows it commits *)
generate_offers(request, deal_exists, snapshot) ==
    IF ~deal_exists THEN NothingStoredWith(NoOffersResponse("error", "none"))
    ELSE IF RequestMetrics(request, snapshot) = None
    THEN NothingStoredWith(NoOffersResponse("error", "none"))
    ELSE IF ~MetricsComplete(RequestMetrics(request, snapshot)[1])
    THEN NothingStoredWith(NoOffersResponse("raised", "none"))
    ELSE EvaluateAndPrice(request, RequestMetrics(request, snapshot)[1],
             evaluate_metrics(PlainMetrics(RequestMetrics(request, snapshot)[1]), "CA").result)

(* ---------------- core/idempotency.py ---------------- *)
(* Header values and keys are strings, modelled as sequences of tokens; no
   token is a prefix of another, so two sequences are equal exactly when the
   strings they spell are equal. *)
TTL == 3600

OffersPath == <<"/api/offers/">>
DefaultTenant == <<"default-tenant">>

(* hashlib.sha256(body).hexdigest(): taken as free of collisions, two bodies
   have the same digest exactly when they are the same body *)
Sha256(body) == [sha256 |-> body]

(* f"idem:{tenant_id}:{path}:{idem}:{h}" *)
Key(tenant_id, path, idem, body) ==
    <<"idem", ":">> \o tenant_id \o <<":">> \o path \o <<":">> \o idem
        \o <<":", Sha256(body)>>

(* if not tenant_id: tenant_id = "default-tenant" *)
ResolveTenant(tenant_header) ==
    IF tenant_header = None THEN DefaultTenant ELSE tenant_header[1]

(* row and (time.time() - row["ts"] < TTL) *)
FreshRow(store, key, now) ==
    key \in DOMAIN store /\ now - store[key].ts < TTL

(* _memory_store[key] = {"val": payload, "ts": time.time()}; .by names the
   request that wrote the row and is history, not data of the program *)
StoreRow(store, key, payload, now, by) ==
    [k \in DOMAIN store \cup {key} |->
        IF k = key THEN [val |-> payload, ts |-> now, by |-> by] ELSE store[k]]

(* ---------------- state ---------------- *)
VARIABLES
    pc,          \* "call": a request is about to be evaluated; "returned": its result is out
    metrics,     \* the metrics dict of the current request
    state,       \* its jurisdiction code
    result,      \* the UnderwritingResult returned for it
    risk_local,  \* evaluate_metrics' local risk_score before the cap
    prev,        \* the previous request and its result (history of the caller)
    vt_pc,       \* validate-terms request: "idle", "call", "returned" or "raised"
    vt_args,     \* its arguments
    vt_result,   \* the (valid, issues) pair it returned
    go_pc,       \* generate-offers request: "idle", "call" or "done"
    go_request,  \* its body
    go_snapshot, \* the deal's latest MetricsSnapshot row, if any
    go_response, \* the response (or the fact that the handler raised)
    db_offers,   \* the Offer table
    db_events,   \* the Event table
    clock,       \* time.time(), in seconds
    memory_store, \* core.idempotency._memory_store: key -> row
    rq,          \* generate-offers requests that carry idempotency headers
    agreements,  \* the Agreement table: envelope_id -> status
    deliveries,  \* history of the webhook deliveries handled so far
    wh_secrets   \* which webhook secrets the settings hold

eval_vars == <<pc, metrics, state, result, risk_local, prev>>
terms_vars == <<vt_pc, vt_args, vt_result>>
offers_vars == <<go_pc, go_request, go_snapshot, go_response, db_offers, db_events>>
service_vars == <<clock, memory_store, rq, agreements, deliveries, wh_secrets>>
vars == <<pc, metrics, state, result, risk_local, prev, vt_pc, vt_args, vt_result,
          go_pc, go_request, go_snapshot, go_response, db_offers, db_events,
          clock, memory_store, rq, agreements, deliveries, wh_secrets>>

NoResult ==
    [decision |-> "none", violations |-> <<>>, max_offer_amount |-> None,
     risk_score |-> 0, reasons |-> <<>>, ca_compliant |-> TRUE]

NoMetrics ==
    [avg_monthly_revenue |-> 0, avg_daily_balance_3m |-> 0,
     total_nsf_3m |-> 0, total_days_negative_3m |-> 0]

NoPrev == [called |-> FALSE, metrics |-> NoMetrics, state |-> "", result |-> NoResult,
           risk_local |-> 0]

NoTermsArgs ==
    [deal_amount |-> 0, fee_rate |-> 100, term_days |-> 1, monthly_revenue |-> 0, state |-> ""]

NoTermsResult == [valid |-> FALSE, issues |-> <<>>]

NoOffersRequest ==
    [deal_id |-> "", avg_monthly_revenue |-> None, avg_daily_balance_3m |-> None,
     total_nsf_3m |-> None, total_days_negative_3m |-> None, overrides |-> None]

EmptyStore == [k \in {} |-> 0]

ServicesIdle ==
    /\ clock = 0
    /\ memory_store = EmptyStore
    /\ rq = <<>>
    /\ agreements = EmptyStore
    /\ deliveries = <<>>
    /\ wh_secrets = [dropboxsign |-> "", docusign |-> ""]

OffersIdle ==
    /\ go_pc = "idle"
    /\ go_request = NoOffersRequest
    /\ go_snapshot = None
    /\ go_response = NoOffersResponse("none", "none")
    /\ db_offers = <<>>
    /\ db_events = <<>>

TermsIdle ==
    /\ vt_pc = "idle"
    /\ vt_args = NoTermsArgs
    /\ vt_result = NoTermsResult

Init ==
    /\ pc = "call"
    /\ metrics \in MetricsInputs
    /\ state \in States
    /\ result = NoResult
    /\ risk_local = 0
    /\ prev = NoPrev
    /\ TermsIdle
    /\ OffersIdle
    /\ ServicesIdle

(* POST /api/underwriting/validate: one call of evaluate_metrics *)
EvaluateMetrics ==
    /\ pc = "call"
    /\ LET out == evaluate_metrics(metrics, state)
       IN /\ result' = out.result
          /\ risk_local' = out.risk_local
    /\ pc' = "returned"
    /\ UNCHANGED <<metrics, state, prev, terms_vars, offers_vars, service_vars>>

Remember ==
    prev' = [called |-> TRUE, metrics |-> metrics, state |-> state, result |-> result,
             risk_local |-> risk_local]

(* the caller submits the metrics again, with one field changed or none *)
ResubmitMetrics ==
    /\ pc = "returned"
    /\ \/ \E v \in Revenues : metrics' = [metrics EXCEPT !.avg_monthly_revenue = v]
       \/ \E v \in Balances : metrics' = [metrics EXCEPT !.avg_daily_balance_3m = v]
       \/ \E v \in NsfCounts : metrics' = [metrics EXCEPT !.total_nsf_3m = v]
       \/ \E v \in NegativeDays : metrics' = [metrics EXCEPT !.total_days_negative_3m = v]
    /\ Remember
    /\ pc' = "call"
    /\ result' = NoResult
    /\ risk_local' = 0
    /\ UNCHANGED <<state, terms_vars, offers_vars, service_vars>>

(* the caller submits the same metrics under another jurisdiction code *)
ResubmitState ==
    /\ pc = "returned"
    /\ \E s \in States \ {state} : state' = s
    /\ Remember
    /\ pc' = "call"
    /\ result' = NoResult
    /\ risk_local' = 0
    /\ UNCHANGED <<metrics, terms_vars, offers_vars, service_vars>>

Next == EvaluateMetrics \/ ResubmitMetrics \/ ResubmitState

Spec == Init /\ [][Next]_vars

(* ---------------- the validate-terms endpoint ---------------- *)
MaxTermDays == 3

DealAmounts == {0, 10000, 50000, 100000}
FeeRates == {100, 115, 150}
TermDays == (0..MaxTermDays) \cup {90, 120, 365}
TermsRevenues == {0, 20000, 40000}

TermsInputs ==
    [deal_amount : DealAmounts, fee_rate : FeeRates, term_days : TermDays,
     monthly_revenue : TermsRevenues, state : {"CA", "NY"}]

EvalIdle ==
    /\ pc = "idle"
    /\ metrics = NoMetrics
    /\ state = ""
    /\ result = NoResult
    /\ risk_local = 0
    /\ prev = NoPrev

InitTerms ==
    /\ EvalIdle
    /\ vt_pc = "call"
    /\ vt_args \in TermsInputs
    /\ vt_result = NoTermsResult
    /\ OffersIdle
    /\ ServicesIdle

(* POST /api/underwriting/validate-terms: the route calls the service and then
   repeats the same divisions for its response; an exception of either leaves
   the request without a (valid, issues) answer *)
ValidateDealTerms ==
    /\ vt_pc = "call"
    /\ LET out == validate_deal_terms(vt_args.deal_amount, vt_args.fee_rate,
                                      vt_args.term_days, vt_args.monthly_revenue,
                                      vt_args.state)
       IN IF out.raised \/ DivisionRaises(vt_args.term_days)
          THEN /\ vt_pc' = "raised"
               /\ UNCHANGED vt_result
          ELSE /\ vt_pc' = "returned"
               /\ vt_result' = [valid |-> out.valid, issues |-> out.issues]
    /\ UNCHANGED <<vt_args, eval_vars, offers_vars, service_vars>>

(* the caller sends another validate-terms request *)
NextTermsRequest ==
    /\ vt_pc \in {"returned", "raised"}
    /\ vt_args' \in TermsInputs
    /\ vt_pc' = "call"
    /\ vt_result' = NoTermsResult
    /\ UNCHANGED <<eval_vars, offers_vars, service_vars>>

NextTerms == ValidateDealTerms \/ NextTermsRequest

SpecTerms == InitTerms /\ [][NextTerms]_vars

(* ---------------- the generate-offers endpoint ---------------- *)
MaxOverrideTiers == 4

OfferRevenues == {0, 15000, 20000, 85000}
OfferBalances == {4000, 15000}
OfferNsfCounts == {0, 4, 6}
OfferNegativeDays == {3}

(* bodies that give all four metrics, give none, or give the revenue only *)
OfferMetricsBodies ==
    [avg_monthly_revenue : {Some(v) : v \in OfferRevenues},
     avg_daily_balance_3m : {Some(v) : v \in OfferBalances},
     total_nsf_3m : {Some(v) : v \in OfferNsfCounts},
     total_days_negative_3m : {Some(v) : v \in OfferNegativeDays}]
    \cup
    [avg_monthly_revenue : {None, Some(85000)},
     avg_daily_balance_3m : {None}, total_nsf_3m : {None}, total_days_negative_3m : {None}]

(* override tiers: twice the revenue over 30 days, half of it over a year
   cheaply, and a tier whose term is 0 days *)
OverrideTierPool ==
    { [factor |-> 20, fee |-> 150, term_days |-> 30, buy_rate |-> None],
      [factor |-> 5, fee |-> 110, term_days |-> 365, buy_rate |-> Some(105)],
      [factor |-> 10, fee |-> 120, term_days |-> 0, buy_rate |-> None] }

OverrideTierLists ==
    UNION {[1..n -> OverrideTierPool] : n \in 0..MaxOverrideTiers}

OfferOverridesInputs == {None} \cup {Some([tiers |-> t]) : t \in OverrideTierLists}

OffersRequests ==
    {[deal_id |-> d,
      avg_monthly_revenue |-> b.avg_monthly_revenue,
      avg_daily_balance_3m |-> b.avg_daily_balance_3m,
      total_nsf_3m |-> b.total_nsf_3m,
      total_days_negative_3m |-> b.total_days_negative_3m,
      overrides |-> o] :
        d \in {"deal-1", "deal-0"}, b \in OfferMetricsBodies, o \in OfferOverridesInputs}

(* the Deal table holds deal-1 only *)
DealExists(deal_id) == deal_id = "deal-1"

Snapshots ==
    {None,
     Some([avg_monthly_revenue |-> 85000, avg_daily_balance_3m |-> 15000,
           total_nsf_3m |-> 2, total_days_negative_3m |-> 3]),
     Some([avg_monthly_revenue |-> 85000, avg_daily_balance_3m |-> 4000,
           total_nsf_3m |-> 4, total_days_negative_3m |-> 3])}

InitOffers ==
    /\ EvalIdle
    /\ TermsIdle
    /\ go_pc = "idle"
    /\ go_request = NoOffersRequest
    /\ go_snapshot \in Snapshots
    /\ go_response = NoOffersResponse("none", "none")
    /\ db_offers = <<>>
    /\ db_events = <<>>
    /\ ServicesIdle

(* a request body arrives *)
ReceiveOffersRequest ==
    /\ go_pc = "idle"
    /\ go_request' \in OffersRequests
    /\ go_pc' = "call"
    /\ UNCHANGED <<go_snapshot, go_response, db_offers, db_events, eval_vars, terms_vars, service_vars>>

(* POST /api/offers/ with no cached idempotent response *)
GenerateOffers ==
    /\ go_pc = "call"
    /\ LET out == generate_offers(go_request, DealExists(go_request.deal_id), go_snapshot)
       IN /\ go_response' = out.response
          /\ db_offers' = db_offers \o out.offers_added
          /\ db_events' = db_events \o out.events_added
    /\ go_pc' = "done"
    /\ UNCHANGED <<go_request, go_snapshot, eval_vars, terms_vars, service_vars>>

NextOffers == ReceiveOffersRequest \/ GenerateOffers

SpecOffers == InitOffers /\ [][NextOffers]_vars

(* ---------------- generate-offers requests with idempotency ---------------- *)
MaxClock == 3600

(* two requests in flight *)
Requests == {1, 2}

(* time passes in steps that reach less than, exactly and more than the TTL *)
Elapses == {1800, TTL}

(* X-Tenant-ID: absent, the default tenant spelled out, a tenant, and a tenant
   whose name contains the separator, the path and a key *)
TenantHeaders ==
    {None, Some(DefaultTenant), Some(<<"t1">>),
     Some(<<"t1", ":">> \o OffersPath \o <<":", "k1">>)}

(* Idempotency-Key: absent, a key, and a key that contains the separator and
   the path *)
IdempotencyKeys ==
    {None, Some(<<"k1">>), Some(<<"k1", ":">> \o OffersPath \o <<":", "k1">>)}

(* two bodies for deal-1: the latest snapshot with the default tiers, and with
   one override tier *)
IdemBodies ==
    {[NoOffersRequest EXCEPT !.deal_id = "deal-1"],
     [NoOffersRequest EXCEPT !.deal_id = "deal-1",
         !.overrides = Some([tiers |->
             <<[factor |-> 5, fee |-> 110, term_days |-> 365, buy_rate |-> Some(105)]>>])]}

NewRequest(tenant_header, idempotency_key, body) ==
    [pc |-> "start",
     tenant_header |-> tenant_header,
     idempotency_key |-> idempotency_key,
     path |-> OffersPath,
     body |-> body,
     tenant_id |-> None,       \* request.state.tenant_id
     idem_cached |-> None,     \* request.state.idem_cached
     idem_key |-> None,        \* request.state.idem_key
     response |-> None,
     \* history: when the dependency ran, which requests' rows were fresh then,
     \* whose row answered, and whether the handler wrote rows
     checked_at |-> 0,
     fresh_then |-> {},
     answered_from |-> None,
     created |-> FALSE]

ApprovedSnapshot ==
    Some([avg_monthly_revenue |-> 85000, avg_daily_balance_3m |-> 15000,
          total_nsf_3m |-> 2, total_days_negative_3m |-> 3])

InitIdem ==
    /\ EvalIdle
    /\ TermsIdle
    /\ go_pc = "idle"
    /\ go_request = NoOffersRequest
    /\ go_snapshot = ApprovedSnapshot
    /\ go_response = NoOffersResponse("none", "none")
    /\ db_offers = <<>>
    /\ db_events = <<>>
    /\ clock = 0
    /\ memory_store = EmptyStore
    /\ rq \in [Requests -> {NewRequest(t, k, b) :
                               t \in TenantHeaders, k \in IdempotencyKeys, b \in IdemBodies}]
    /\ agreements = EmptyStore
    /\ deliveries = <<>>
    /\ wh_secrets = [dropboxsign |-> "", docusign |-> ""]

(* the dependency require_idempotency of request p, in-memory store *)
RequireIdempotency(p) ==
    /\ rq[p].pc = "start"
    /\ IF rq[p].idempotency_key = None
       THEN rq' = [rq EXCEPT ![p].pc = "rejected"]
       ELSE LET tenant_id == ResolveTenant(rq[p].tenant_header)
                key == Key(tenant_id, rq[p].path, rq[p].idempotency_key[1], rq[p].body)
                hit == FreshRow(memory_store, key, clock)
            IN rq' = [rq EXCEPT
                   ![p].pc = "checked",
                   ![p].tenant_id = Some(tenant_id),
                   ![p].idem_key = Some(key),
                   ![p].idem_cached = IF hit THEN Some(memory_store[key].val) ELSE None,
                   ![p].checked_at = clock,
                   ![p].fresh_then = {memory_store[k].by :
                                        k \in {j \in DOMAIN memory_store :
                                                  clock - memory_store[j].ts < TTL}},
                   ![p].answered_from = IF hit THEN Some(memory_store[key].by) ELSE None]
    /\ UNCHANGED <<clock, memory_store, agreements, deliveries, wh_secrets,
                   eval_vars, terms_vars, offers_vars>>

(* what the handler of request p does with the outcome of the offer
   computation: the rows it commits and, after offers, store_idempotent *)
CommitAndStore(p, out) ==
    /\ db_offers' = db_offers \o out.offers_added
    /\ db_events' = db_events \o out.events_added
    /\ memory_store' = IF out.response.kind = "offers"
                       THEN StoreRow(memory_store, rq[p].idem_key[1], out.response, clock, p)
                       ELSE memory_store
    /\ rq' = [rq EXCEPT ![p].pc = "done",
                        ![p].response = Some(out.response),
                        ![p].created = out.offers_added # <<>> \/ out.events_added # <<>>]

(* the handler generate_offers of request p *)
GenerateOffersOnce(p) ==
    /\ rq[p].pc = "checked"
    /\ IF rq[p].idem_cached # None
       THEN /\ rq' = [rq EXCEPT ![p].pc = "done", ![p].response = rq[p].idem_cached]
            /\ UNCHANGED <<db_offers, db_events, memory_store>>
       ELSE CommitAndStore(p, generate_offers(rq[p].body, DealExists(rq[p].body.deal_id),
                                              go_snapshot))
    /\ UNCHANGED <<clock, agreements, deliveries, wh_secrets, eval_vars, terms_vars,
                   go_pc, go_request, go_snapshot, go_response>>

(* time passes *)
Tick ==
    /\ \E e \in Elapses : clock + e <= MaxClock /\ clock' = clock + e
    /\ UNCHANGED <<memory_store, rq, agreements, deliveries, wh_secrets,
                   eval_vars, terms_vars, offers_vars>>

NextIdem ==
    \/ \E p \in Requests : RequireIdempotency(p)
    \/ \E p \in Requests : GenerateOffersOnce(p)
    \/ Tick

SpecIdem == InitIdem /\ [][NextIdem]_vars

(* ---------------- the signing webhook ---------------- *)
MaxDeliveries == 3

(* the window of the webhook deduplication, in seconds *)
DedupWindow == 3600

(* hmac.new(secret, body, sha256).hexdigest(): one digest per secret and body *)
HmacSha256(secret, body) == [hmac |-> <<secret, body>>]

(* a header value: the digest it carries and whether blanks surround it;
   the empty header has no digest and no blanks *)
HeaderValue(mac, padded) == [mac |-> mac, padded |-> padded]

(* the empty string, which is no digest *)
NoDigest == [hmac |-> <<>>]
EmptyHeader == HeaderValue(NoDigest, FALSE)

(* bool(header): None and the empty string are falsy *)
HeaderTruthy(header) == header # None /\ header[1] # EmptyHeader

(* (header or "").strip() *)
Strip(header) == IF header = None THEN NoDigest ELSE header[1].mac

verify_dropboxsign(secrets, body, header) ==
    /\ secrets.dropboxsign # ""
    /\ HmacSha256(secrets.dropboxsign, body) = Strip(header)

verify_docusign(secrets, body, header) ==
    /\ secrets.docusign # ""
    /\ HmacSha256(secrets.docusign, body) = Strip(header)

(* lines 144-154: the outcome of the signature check *)
Verified(secrets, body, dropbox_signature, docusign_signature) ==
    IF HeaderTruthy(dropbox_signature)
    THEN verify_dropboxsign(secrets, body, dropbox_signature)
    ELSE IF HeaderTruthy(docusign_signature)
         THEN verify_docusign(secrets, body, docusign_signature)
         ELSE FALSE

(* f"wh:{envelope_id}:{event_type}" *)
DedupKey(envelope_id, event_type) ==
    <<"wh", ":">> \o envelope_id \o <<":">> \o event_type

AlreadyProcessed_half_window(store, dedup_key, now) ==
    dedup_key \in DOMAIN store /\ now - store[dedup_key].ts < 1800

(* dedup_key in _memory_store and (now - ts) < 3600 *)
AlreadyProcessed(store, dedup_key, now) ==
    dedup_key \in DOMAIN store /\ now - store[dedup_key].ts < DedupWindow

(* lines 205-239: the agreement status a webhook status leads to, if any *)
NewAgreementStatus(status) ==
    IF status \in {"completed", "signed"} THEN Some("completed")
    ELSE IF status \in {"declined", "voided"} THEN Some(status)
    ELSE None

(* the Event row logged with it: contract.completed or contract.{status} *)
ContractEvent(envelope_id, event_type, new_status) ==
    [type |-> <<"contract", ".", new_status>>,
     envelope_id |-> envelope_id, event_type |-> event_type]

DropboxSecret == "dropboxsign-secret"
DocusignSecret == "docusign-secret"

(* the settings: each secret is either unset ("") or set *)
SecretSettings ==
    {[dropboxsign |-> d, docusign |-> u] : d \in {"", DropboxSecret}, u \in {"", DocusignSecret}}

(* the envelope of the agreement that was sent, and one no agreement has *)
SentEnvelope == <<"mock-envelope-1">>
Envelopes == {SentEnvelope, <<"mock-envelope-2">>}
EventTypes == {<<"signature_request_signed">>, <<"signature_request_declined">>}
Statuses == {"signed", "declined", "viewed"}

WebhookBody(envelope_id, status, event_type) ==
    [envelope_id |-> envelope_id, status |-> status, event_type |-> event_type]

(* the body an earlier signature was made for *)
StaleBody == WebhookBody(SentEnvelope, "viewed", <<"signature_request_viewed">>)

(* the (X-Dropbox-Signature, X-DocuSign-Signature) pairs a sender may put on a
   body: none, the provider's digest (with blanks around it), an empty Dropbox
   header before a DocuSign digest, a digest made without a key, a digest made
   for another body, and a bad Dropbox digest before a good DocuSign one *)
SignatureHeaders(body) ==
    {<<None, None>>,
     <<Some(HeaderValue(HmacSha256(DropboxSecret, body), TRUE)), None>>,
     <<None, Some(HeaderValue(HmacSha256(DocusignSecret, body), FALSE))>>,
     <<Some(EmptyHeader), Some(HeaderValue(HmacSha256(DocusignSecret, body), FALSE))>>,
     <<Some(HeaderValue(HmacSha256("", body), FALSE)), None>>,
     <<None, Some(HeaderValue(HmacSha256(DocusignSecret, StaleBody), FALSE))>>,
     <<Some(HeaderValue(HmacSha256(DropboxSecret, StaleBody), FALSE)),
       Some(HeaderValue(HmacSha256(DocusignSecret, body), FALSE))>>}

(* history: whether a header of the delivery carries the digest of its body
   under a secret the settings hold *)
SignedByProvider(secrets, body, headers) ==
    \/ /\ secrets.dropboxsign # "" /\ headers[1] # None
       /\ headers[1][1].mac = HmacSha256(secrets.dropboxsign, body)
    \/ /\ secrets.docusign # "" /\ headers[2] # None
       /\ headers[2][1].mac = HmacSha256(secrets.docusign, body)

Delivery(body, at, signed, outcome, changed) ==
    [envelope_id |-> body.envelope_id, event_type |-> body.event_type,
     at |-> at, signed |-> signed, outcome |-> outcome, changed |-> changed]

InitWebhook ==
    /\ EvalIdle
    /\ TermsIdle
    /\ OffersIdle
    /\ clock = 0
    /\ memory_store = EmptyStore
    /\ rq = <<>>
    /\ agreements = [e \in {SentEnvelope} |-> "sent"]
    /\ deliveries = <<>>
    /\ wh_secrets \in SecretSettings

(* what the handler answers: 401 without a verified signature, then
   already_processed, 404 without an agreement, or processed *)
WebhookResponse(body, headers) ==
    IF ~Verified(wh_secrets, body, headers[1], headers[2]) THEN "401"
    ELSE IF AlreadyProcessed(memory_store, DedupKey(body.envelope_id, body.event_type), clock)
         THEN "already_processed"
    ELSE IF body.envelope_id \notin DOMAIN agreements THEN "404"
    ELSE "processed"

(* lines 156-243, after the signature verified: the dedup entry, then the
   agreement and its event, committed together *)
ProcessDelivery(body, response) ==
    /\ memory_store' =
           IF response = "already_processed" THEN memory_store
           ELSE StoreRow(memory_store, DedupKey(body.envelope_id, body.event_type),
                         "1", clock, 0)
    /\ IF response = "processed" /\ NewAgreementStatus(body.status) # None
       THEN /\ agreements' = [agreements EXCEPT
                                 ![body.envelope_id] = NewAgreementStatus(body.status)[1]]
            /\ db_events' = Append(db_events,
                   ContractEvent(body.envelope_id, body.event_type,
                                 NewAgreementStatus(body.status)[1]))
       ELSE UNCHANGED <<agreements, db_events>>

(* the handler signing_webhook, in-memory store; the history records whether
   the dedup entries, the agreements or the events differ afterwards *)
signing_webhook(body, headers) ==
    /\ Len(deliveries) < MaxDeliveries
    /\ IF WebhookResponse(body, headers) = "401"
       THEN UNCHANGED <<memory_store, agreements, db_events>>
       ELSE ProcessDelivery(body, WebhookResponse(body, headers))
    /\ deliveries' = Append(deliveries,
           Delivery(body, clock, SignedByProvider(wh_secrets, body, headers),
                    WebhookResponse(body, headers),
                    <<memory_store', agreements', db_events'>>
                        # <<memory_store, agreements, db_events>>))
    /\ UNCHANGED <<clock, rq, wh_secrets, eval_vars, terms_vars,
                   go_pc, go_request, go_snapshot, go_response, db_offers>>

SigningWebhook ==
    \E e \in Envelopes, s \in Statuses, t \in EventTypes :
        \E h \in SignatureHeaders(WebhookBody(e, s, t)) :
            signing_webhook(WebhookBody(e, s, t), h)

NextWebhook ==
    \/ SigningWebhook
    \/ Tick

SpecWebhook == InitWebhook /\ [][NextWebhook]_vars

(* ======================================================================= *)
(* Properties                                                              *)
(* ======================================================================= *)
Returned == pc = "returned"

Range(seq) == {seq[i] : i \in DOMAIN seq}
RuleIdsOf(r) == {r.violations[i].rule_id : i \in DOMAIN r.violations}
HasViolation(r, rule_id) == rule_id \in RuleIdsOf(r)
SeverityCount(r, severity) ==
    Cardinality({i \in DOMAIN r.violations : r.violations[i].severity = severity})

(* strictness of a decision *)
Rank(decision) ==
    CASE decision = APPROVED -> 0
      [] decision = CONDITIONAL -> 1
      [] decision = MANUAL_REVIEW -> 2
      [] decision = DECLINED -> 3

(* the current call repeats the previous one with the same jurisdiction *)
SamePairState == prev.called /\ Returned /\ prev.state = state

(* C1: the decision is resolved by first match: DECLINED if a reported
   violation is CRITICAL or ca_compliant is false; else MANUAL_REVIEW if at
   least 3 WARNING violations or risk_score > 0.8; else CONDITIONAL if
   risk_score > 0.6; else APPROVED. *)
C1_DecisionPriority ==
    Returned =>
        result.decision =
            IF SeverityCount(result, CRITICAL) > 0 \/ ~result.ca_compliant THEN DECLINED
            ELSE IF SeverityCount(result, WARNING) >= 3 \/ result.risk_score > 80 THEN MANUAL_REVIEW
            ELSE IF result.risk_score > 60 THEN CONDITIONAL
            ELSE APPROVED

C1_Witness ==
    /\ Returned
    /\ result.decision = CONDITIONAL
    /\ SeverityCount(result, CRITICAL) = 0
    /\ SeverityCount(result, WARNING) = 2
    /\ result.risk_score = 65

(* C3: decision is DECLINED if and only if max_offer_amount is None. *)
C3_DeclinedIffNoAmount ==
    Returned => ((result.decision = DECLINED) <=> (result.max_offer_amount = None))

C3_Witness ==
    /\ Returned
    /\ result.decision = DECLINED
    /\ result.max_offer_amount = None

(* C8: the returned risk_score lies in [0, 1]. *)
C8_RiskScoreInUnitInterval ==
    Returned => (result.risk_score >= 0 /\ result.risk_score <= 100)

C8_Witness ==
    /\ Returned
    /\ risk_local > 100
    /\ result.risk_score = 100

(* the increment the claim gives for each base rule *)
ClaimedIncrement(rule_id) ==
    CASE rule_id = "min_monthly_revenue" -> 30
      [] rule_id = "max_nsf_3m" -> 25
      [] rule_id = "max_nsf_ratio" -> 15
      [] rule_id = "min_avg_balance" -> 20
      [] rule_id = "balance_to_revenue_ratio" -> 15
      [] rule_id = "max_negative_days_3m" -> 30
      [] OTHER -> 0

RECURSIVE IncrementSum(_)
IncrementSum(violations) ==
    IF violations = <<>> THEN 0
    ELSE ClaimedIncrement(Head(violations).rule_id) + IncrementSum(Tail(violations))

HighRiskFired(r) == HIGH_RISK_REASON \in Range(r.reasons)

(* C7: risk_score = min(1, 0.3 + the increments of the breached base rules
   + 0.20 when the high-risk NSF signal fired); min_annual_revenue and the CA
   overlay violations add nothing. *)
C7_RiskScoreIsSumOfIncrements ==
    Returned =>
        result.risk_score =
            Min(100, 30 + IncrementSum(result.violations)
                     + (IF HighRiskFired(result) THEN 20 ELSE 0))

C7_Witness ==
    /\ Returned
    /\ HasViolation(result, "max_nsf_ratio")
    /\ HasViolation(result, "max_nsf_3m")
    /\ HasViolation(result, "min_annual_revenue")
    /\ HasViolation(result, "ca_max_nsf_ratio")
    /\ ~HighRiskFired(result)
    /\ result.risk_score = 100
    /\ risk_local = 100

(* C9: a non-DECLINED result has max_offer_amount = revenue * 0.5 for
   MANUAL_REVIEW, * 0.8 for CONDITIONAL and * 1.2 for APPROVED (amounts in
   tenths of a dollar); revenue 85000, balance 15000, 2 NSF, 3 negative days
   under CA is APPROVED without CRITICAL violation, with amount 102000. *)
C9_MaxOfferAmountByDecision ==
    Returned =>
        /\ result.decision = MANUAL_REVIEW =>
               result.max_offer_amount = Some(metrics.avg_monthly_revenue * 5)
        /\ result.decision = CONDITIONAL =>
               result.max_offer_amount = Some(metrics.avg_monthly_revenue * 8)
        /\ result.decision = APPROVED =>
               result.max_offer_amount = Some(metrics.avg_monthly_revenue * 12)
        /\ ( /\ metrics = [avg_monthly_revenue |-> 85000, avg_daily_balance_3m |-> 15000,
                           total_nsf_3m |-> 2, total_days_negative_3m |-> 3]
             /\ state = "CA" )
           => /\ result.decision = APPROVED
              /\ SeverityCount(result, CRITICAL) = 0
              /\ result.max_offer_amount = Some(1020000)

C9_Witness ==
    /\ Returned
    /\ state = "CA"
    /\ metrics = [avg_monthly_revenue |-> 85000, avg_daily_balance_3m |-> 15000,
                  total_nsf_3m |-> 2, total_days_negative_3m |-> 3]
    /\ result.decision = APPROVED

ViolationOf(r, rule_id) ==
    CHOOSE v \in Range(r.violations) : v.rule_id = rule_id

(* C10: under "CA", ca_min_revenue is reported exactly when 12 * revenue <
   50000 and ca_max_nsf_ratio exactly when nsf / 90 > 0.05, both CRITICAL;
   ca_compliant is false exactly when one of them is reported; the base-rule
   violations of the same numbers are reported as well. *)
C10_CAOverlay ==
    (Returned /\ state = "CA") =>
        /\ HasViolation(result, "ca_min_revenue") <=> (12 * metrics.avg_monthly_revenue < 50000)
        /\ HasViolation(result, "ca_max_nsf_ratio") <=> (metrics.total_nsf_3m * 100 > 5 * 90)
        /\ \A id \in {"ca_min_revenue", "ca_max_nsf_ratio"} :
              HasViolation(result, id) => ViolationOf(result, id).severity = CRITICAL
        /\ (~result.ca_compliant) <=>
              (HasViolation(result, "ca_min_revenue") \/ HasViolation(result, "ca_max_nsf_ratio"))
        /\ HasViolation(result, "ca_min_revenue") =>
              (HasViolation(result, "min_monthly_revenue") /\ HasViolation(result, "min_annual_revenue"))
        /\ HasViolation(result, "ca_max_nsf_ratio") => HasViolation(result, "max_nsf_ratio")
        /\ (metrics.total_nsf_3m > 5) => HasViolation(result, "max_nsf_3m")

C10_Witness ==
    /\ Returned
    /\ state = "CA"
    /\ HasViolation(result, "ca_min_revenue")
    /\ HasViolation(result, "min_monthly_revenue")
    /\ HasViolation(result, "ca_max_nsf_ratio")
    /\ HasViolation(result, "max_nsf_ratio")
    /\ ~result.ca_compliant

(* C6: for identical metrics the decision under "CA" is at least as strict as
   the decision under any other jurisdiction code (the two calls in either
   order). *)
C6_CANeverLessStrict ==
    (prev.called /\ Returned /\ prev.metrics = metrics) =>
        /\ (state = "CA" /\ prev.state # "CA") =>
               Rank(result.decision) >= Rank(prev.result.decision)
        /\ (prev.state = "CA" /\ state # "CA") =>
               Rank(prev.result.decision) >= Rank(result.decision)

C6_Witness ==
    /\ prev.called /\ Returned /\ prev.metrics = metrics
    /\ prev.state = "NY" /\ state = "CA"
    /\ prev.result.decision = APPROVED
    /\ result.decision = DECLINED

(* the metrics b are the metrics a with exactly one of them worse *)
WorsenedOne(a, b) ==
    /\ Cardinality({f \in DOMAIN a : a[f] # b[f]}) = 1
    /\ b.avg_monthly_revenue <= a.avg_monthly_revenue
    /\ b.total_nsf_3m >= a.total_nsf_3m
    /\ b.total_days_negative_3m >= a.total_days_negative_3m
    /\ b.avg_daily_balance_3m <= a.avg_daily_balance_3m

NotLessStrictNorLessRisky ==
    /\ Rank(result.decision) >= Rank(prev.result.decision)
    /\ result.risk_score >= prev.result.risk_score

(* C2 as stated: worsening any single metric, the others and the jurisdiction
   fixed, never gives a less strict decision nor a lower risk_score. *)
C2_MonotoneInEveryMetric ==
    (SamePairState /\ WorsenedOne(prev.metrics, metrics)) => NotLessStrictNorLessRisky

(* lowering the revenue lifts balance / revenue from below 0.05 to 0.05 or more *)
RevenueCutClearsRatioBreach(a, b) ==
    /\ b.avg_monthly_revenue < a.avg_monthly_revenue
    /\ b.avg_monthly_revenue > 0
    /\ a.avg_daily_balance_3m * 100 < 5 * a.avg_monthly_revenue
    /\ b.avg_daily_balance_3m * 100 >= 5 * b.avg_monthly_revenue

(* C2 amended: the same, except for a revenue cut that lifts balance / revenue
   from below 0.05 to at least 0.05. *)
C2_MonotoneUnlessRatioCleared ==
    ( /\ SamePairState
      /\ WorsenedOne(prev.metrics, metrics)
      /\ ~RevenueCutClearsRatioBreach(prev.metrics, metrics) ) => NotLessStrictNorLessRisky

C2_Witness ==
    /\ SamePairState
    /\ WorsenedOne(prev.metrics, metrics)
    /\ metrics.avg_monthly_revenue < prev.metrics.avg_monthly_revenue
    /\ ~RevenueCutClearsRatioBreach(prev.metrics, metrics)
    /\ HasViolation(prev.result, "balance_to_revenue_ratio")
    /\ prev.result.decision = CONDITIONAL
    /\ result.decision = DECLINED

EvaluatedRuleIds ==
    {"min_monthly_revenue", "min_annual_revenue", "max_nsf_3m", "max_nsf_ratio",
     "min_avg_balance", "balance_to_revenue_ratio", "max_negative_days_3m",
     "ca_min_revenue", "ca_max_nsf_ratio"}

(* what the high-risk signal does when it applies exactly under the condition
   applies: the reason is present, the score before the cap carries 0.20 more
   than the rules' increments, and no violation stands for the signal *)
HighRiskSignalExactlyWhen(applies) ==
    /\ HighRiskFired(result) <=> applies
    /\ risk_local = 30 + IncrementSum(result.violations) + (IF applies THEN 20 ELSE 0)
    /\ RuleIdsOf(result) \subseteq EvaluatedRuleIds
    /\ Len(result.violations) = Cardinality(RuleIdsOf(result))

(* C4 as stated: for every jurisdiction, total_nsf_3m >= 8 appends the
   high-risk reason and adds 0.20 before the cap, without a violation; below 8
   neither happens. *)
C4_HighRiskInEveryJurisdiction ==
    Returned => HighRiskSignalExactlyWhen(metrics.total_nsf_3m >= 8)

(* C4 amended: under jurisdiction "CA", total_nsf_3m >= 8 appends the
   high-risk reason and adds 0.20 before the cap, without a violation; under
   any other jurisdiction code, or below 8, neither happens. *)
C4_HighRiskOnlyUnderCA ==
    Returned => HighRiskSignalExactlyWhen(state = "CA" /\ metrics.total_nsf_3m >= 8)

C4_Witness ==
    /\ Returned
    /\ state = "CA"
    /\ metrics.total_nsf_3m = 8
    /\ HighRiskFired(result)
    /\ risk_local = 30 + 25 + 15 + 20

(* C5: validate_deal_terms never raises for zero monthly_revenue or zero
   term_days; a (valid, issues) pair is always returned. *)
C5_TermsNeverRaise ==
    vt_pc \in {"returned", "raised"} =>
        /\ vt_pc = "returned"
        /\ vt_result.valid <=> (vt_result.issues = <<>>)

(* C11: under any jurisdiction code other than "CA", unknown or malformed ones
   included, evaluate_metrics returns a result without ca_min_revenue or
   ca_max_nsf_ratio violation and with ca_compliant = true. *)
C11_NoOverlayOutsideCA ==
    (Returned /\ state # "CA") =>
        /\ result.decision \in {APPROVED, CONDITIONAL, MANUAL_REVIEW, DECLINED}
        /\ ~HasViolation(result, "ca_min_revenue")
        /\ ~HasViolation(result, "ca_max_nsf_ratio")
        /\ result.ca_compliant

C11_Witness ==
    /\ Returned
    /\ state = "ca"
    /\ 12 * metrics.avg_monthly_revenue < 50000
    /\ metrics.total_nsf_3m >= 5
    /\ result.ca_compliant
    /\ result.decision = DECLINED

TermsReturned == vt_pc = "returned"
HasIssue(issue) == issue \in Range(vt_result.issues)

(* C12: a returned issue list holds the payment-ratio issue exactly when
   (amount * fee / term) / (revenue / 30) > 0.15, the exposure issue exactly
   when amount / revenue > 2.0 and the CA APR issue exactly when the
   jurisdiction is "CA" and (fee - 1) * 365 / term > 0.36; both ratios are 0
   for revenue 0; the checks do not exclude each other; valid is true exactly
   when the list is empty; 50000 at 1.5 over 90 days on revenue 40000 under CA
   is invalid with the CA APR issue. *)
C12_TermIssues ==
    TermsReturned =>
        LET a == vt_args
        IN /\ HasIssue(PAYMENT_RATIO_ISSUE) <=>
                 ( /\ a.monthly_revenue > 0
                   /\ a.deal_amount * a.fee_rate * 30 > 15 * a.term_days * a.monthly_revenue )
           /\ HasIssue(EXPOSURE_ISSUE) <=>
                 (a.monthly_revenue > 0 /\ a.deal_amount > 2 * a.monthly_revenue)
           /\ HasIssue(CA_APR_ISSUE) <=>
                 (a.state = "CA" /\ (a.fee_rate - 100) * 365 > 36 * a.term_days)
           /\ Len(vt_result.issues) = Cardinality(Range(vt_result.issues))
           /\ vt_result.valid <=> (vt_result.issues = <<>>)
           /\ (a = [deal_amount |-> 50000, fee_rate |-> 150, term_days |-> 90,
                    monthly_revenue |-> 40000, state |-> "CA"])
              => (~vt_result.valid /\ HasIssue(CA_APR_ISSUE))

C12_Witness ==
    /\ TermsReturned
    /\ vt_result.issues = <<PAYMENT_RATIO_ISSUE, EXPOSURE_ISSUE, CA_APR_ISSUE>>
    /\ ~vt_result.valid

(* C18 as stated: for each rule_id of the catalogue some metrics and
   jurisdiction make evaluate_metrics report a violation with that rule_id. *)
C18_EveryCatalogRuleReported ==
    Returned =>
        \A id \in DOMAIN rules :
            \E s \in States : \E m \in MetricsInputs :
                HasViolation(evaluate_metrics(m, s).result, id)

(* catalogue rules evaluate_metrics never reports *)
UnreportedRuleIds ==
    {"max_consecutive_negative_days", "max_daily_payment_ratio", "max_total_exposure"}

(* an input that breaches every rule evaluate_metrics checks *)
WorstMetrics ==
    [avg_monthly_revenue |-> 4000, avg_daily_balance_3m |-> -1000,
     total_nsf_3m |-> 6, total_days_negative_3m |-> 16]

(* C18 amended: evaluate_metrics evaluates nine of the twelve catalogue rules:
   each rule_id other than max_consecutive_negative_days,
   max_daily_payment_ratio and max_total_exposure is reported for some
   metrics under "CA", and no result ever carries one of these three. *)
C18_NineOfTwelveRulesReported ==
    /\ Returned => (RuleIdsOf(result) \cap UnreportedRuleIds = {})
    /\ (Returned /\ state = "CA" /\ metrics = WorstMetrics) =>
           RuleIdsOf(result) = DOMAIN rules \ UnreportedRuleIds

C18_Witness ==
    /\ Returned
    /\ state = "CA"
    /\ metrics = WorstMetrics
    /\ Len(result.violations) = 9

EvaluationOrder ==
    <<"min_monthly_revenue", "min_annual_revenue", "max_nsf_3m", "max_nsf_ratio",
      "min_avg_balance", "balance_to_revenue_ratio", "max_negative_days_3m",
      "ca_min_revenue", "ca_max_nsf_ratio">>

OrderIndex(rule_id) == CHOOSE k \in DOMAIN EvaluationOrder : EvaluationOrder[k] = rule_id

(* C19: the violations are a repetition-free subsequence of the fixed
   evaluation order; each rule_id is a key of the catalogue and the violation
   carries that entry's threshold and severity. *)
C19_ViolationsFollowCatalog ==
    Returned =>
        LET v == result.violations
        IN /\ \A i \in DOMAIN v : v[i].rule_id \in Range(EvaluationOrder)
           /\ \A i, j \in DOMAIN v : i < j => OrderIndex(v[i].rule_id) < OrderIndex(v[j].rule_id)
           /\ \A i \in DOMAIN v :
                 /\ v[i].rule_id \in DOMAIN rules
                 /\ v[i].threshold_value = rules[v[i].rule_id].threshold
                 /\ v[i].severity = rules[v[i].rule_id].severity

C19_Witness ==
    /\ Returned
    /\ Len(result.violations) = 9
    /\ result.violations[3].rule_id = "max_nsf_3m"
    /\ result.violations[4].rule_id = "max_nsf_ratio"
    /\ result.violations[9].rule_id = "ca_max_nsf_ratio"


(* ---------------- generate_offers ---------------- *)
OffersDone == go_pc = "done"

(* the request reached the evaluator: the deal exists and the metrics dict has
   all four fields *)
OffersEvaluated ==
    /\ DealExists(go_request.deal_id)
    /\ RequestMetrics(go_request, go_snapshot) # None
    /\ MetricsComplete(RequestMetrics(go_request, go_snapshot)[1])

(* what evaluate_metrics returns for the request's metrics under "CA" *)
OffersEvaluation ==
    evaluate_metrics(PlainMetrics(RequestMetrics(go_request, go_snapshot)[1]), "CA").result

OffersRevenue ==
    OrElse(go_request.avg_monthly_revenue,
           RequestMetrics(go_request, go_snapshot)[1].avg_monthly_revenue)

NothingStored == db_offers = <<>> /\ db_events = <<>>

(* C13: when the evaluator's decision is DECLINED or MANUAL_REVIEW the response
   has an empty offers list and no Offer row and no offer.generated event is
   stored; a response with offers, and any stored row, comes from an APPROVED
   or CONDITIONAL evaluation. *)
C13_NoOffersWhenDeclinedOrReview ==
    (OffersDone /\ OffersEvaluated) =>
        /\ OffersEvaluation.decision \in {DECLINED, MANUAL_REVIEW}
               => (go_response.offers = <<>> /\ NothingStored)
        /\ (go_response.offers # <<>> \/ ~NothingStored)
               => OffersEvaluation.decision \in {APPROVED, CONDITIONAL}

C13_Witness ==
    /\ OffersDone
    /\ OffersEvaluated
    /\ OffersEvaluation.decision = MANUAL_REVIEW
    /\ go_request.overrides # None
    /\ go_response.kind = "manual_review"
    /\ go_response.offers = <<>>
    /\ NothingStored

(* C14: every offer amount is at most the evaluation's max_offer_amount when
   that is not null, with the default tiers and with override tiers. *)
C14_AmountWithinMaxOffer ==
    (OffersDone /\ OffersEvaluated) =>
        \A i \in DOMAIN go_response.offers :
            OffersEvaluation.max_offer_amount # None
                => go_response.offers[i].amount * 10 <= OffersEvaluation.max_offer_amount[1]

(* an override tier asks for twice the revenue and a default tier for more
   than the CONDITIONAL limit *)
C14_Witness ==
    /\ OffersDone
    /\ OffersEvaluated
    /\ go_response.offers # <<>>
    /\ go_request.overrides # None
    /\ \E i \in DOMAIN go_response.offers :
           /\ go_response.offers[i].factor = 20
           /\ OffersRevenue * 20 > OffersEvaluation.max_offer_amount[1]

(* the risk-adjusted value the i-th offer was rounded from, in dollars *)
OfferAdjustedAmount(i) ==
    AdjustedAmount(
        CapBaseAmount(OffersRevenue * go_response.offers[i].factor,
                      OffersEvaluation.max_offer_amount),
        OffersEvaluation.risk_score)

(* C15: every offer amount is an exact multiple of 100 and is not above the
   risk-adjusted value it was rounded from. *)
C15_AmountRoundedDown ==
    (OffersDone /\ OffersEvaluated) =>
        \A i \in DOMAIN go_response.offers :
            /\ go_response.offers[i].amount % 100 = 0
            /\ ~RatLess(OfferAdjustedAmount(i), RatInt(go_response.offers[i].amount))

(* an offer whose risk-adjusted value is not itself a multiple of 100 *)
C15_Witness ==
    /\ OffersDone
    /\ OffersEvaluated
    /\ \E i \in DOMAIN go_response.offers :
           /\ RatLess(RatInt(go_response.offers[i].amount), OfferAdjustedAmount(i))
           /\ go_response.offers[i].amount > 0


(* the tier table of the request: overrides.tiers when supplied and non-empty,
   otherwise 0.8x/1.15/90d, 1.0x/1.20/120d, 1.2x/1.25/150d *)
OffersTierTable ==
    IF go_request.overrides # None /\ Len(go_request.overrides[1].tiers) > 0
    THEN go_request.overrides[1].tiers
    ELSE << [factor |-> 8, fee |-> 115, term_days |-> 90, buy_rate |-> Some(112)],
            [factor |-> 10, fee |-> 120, term_days |-> 120, buy_rate |-> Some(116)],
            [factor |-> 12, fee |-> 125, term_days |-> 150, buy_rate |-> Some(120)] >>

OffersPriced ==
    /\ OffersDone
    /\ OffersEvaluated
    /\ OffersEvaluation.decision \in {APPROVED, CONDITIONAL}

(* C16 as stated: for an APPROVED or CONDITIONAL evaluation the response holds
   exactly min(3, n) offers, n the length of the tier table, and the k-th offer
   is numbered k and carries the factor, fee and term of the k-th tier. *)
C16_OneOfferPerTierInOrder ==
    OffersPriced =>
        /\ Len(go_response.offers) = Min(3, Len(OffersTierTable))
        /\ Len(go_response.offers) \in 1..3
        /\ \A k \in DOMAIN go_response.offers :
               /\ go_response.offers[k].tier = k
               /\ go_response.offers[k].factor = OffersTierTable[k].factor
               /\ go_response.offers[k].fee = OffersTierTable[k].fee
               /\ go_response.offers[k].term_days = OffersTierTable[k].term_days

(* C17 as stated: every processed tier yields an offer, non-compliant or not,
   whose terms_compliant and compliance_issues are what the Term Validator
   returns for (offer amount, tier fee, tier term_days, revenue), and
   terms_compliant is true exactly when compliance_issues is empty. *)
C17_EveryTierYieldsValidatedOffer ==
    OffersPriced =>
        \A k \in 1..Min(3, Len(OffersTierTable)) :
            /\ k \in DOMAIN go_response.offers
            /\ LET offer == go_response.offers[k]
                   terms == validate_deal_terms(offer.amount, OffersTierTable[k].fee,
                                                OffersTierTable[k].term_days,
                                                OffersRevenue, "CA")
               IN /\ ~terms.raised
                  /\ offer.terms_compliant = terms.valid
                  /\ offer.compliance_issues = terms.issues
                  /\ offer.terms_compliant <=> (offer.compliance_issues = <<>>)


(* ---------------- evaluate_metrics, further properties ---------------- *)

(* C21: with avg_monthly_revenue = 0 the call returns, the ratio is a defined
   number equal to 0, and the balance_to_revenue_ratio violation is reported
   with actual_value 0 whatever the balance is. *)
C21_ZeroRevenueRatioIsZero ==
    (Returned /\ metrics.avg_monthly_revenue = 0) =>
        /\ HasViolation(result, "balance_to_revenue_ratio")
        /\ ViolationOf(result, "balance_to_revenue_ratio").actual_value[2] # 0
        /\ ViolationOf(result, "balance_to_revenue_ratio").actual_value[1] = 0

(* a large balance on zero revenue is flagged as well *)
C21_Witness ==
    /\ Returned
    /\ metrics.avg_monthly_revenue = 0
    /\ metrics.avg_daily_balance_3m = 15000
    /\ HasViolation(result, "balance_to_revenue_ratio")

(* the decision the chain reaches when it reads the capped score *)
DecisionOnCappedScore ==
    ResolveDecision(result.violations, result.ca_compliant, CapRiskScore(risk_local))

(* C23: capping the score first and resolving the decision on the capped score
   gives the decision, max_offer_amount and risk_score that the code returns
   by resolving on the uncapped score and capping afterwards. *)
C23_ClampOrderIrrelevant ==
    Returned =>
        /\ DecisionOnCappedScore = result.decision
        /\ MaxOfferAmount(DecisionOnCappedScore, metrics.avg_monthly_revenue)
               = result.max_offer_amount
        /\ CapRiskScore(risk_local) = result.risk_score

(* the cap acts, and a score between the thresholds is resolved as well *)
C23_Witness ==
    /\ Returned
    /\ prev.called
    /\ prev.risk_local > 100
    /\ prev.result.decision = DECLINED
    /\ risk_local = 65
    /\ result.decision = CONDITIONAL

(* C27: a result that carries the high-risk NSF reason is DECLINED, it carries
   the CRITICAL max_nsf_3m violation, and the chain reaches the same decision
   without the 0.20 the signal added. *)
C27_HighRiskImpliesDeclined ==
    (Returned /\ HighRiskFired(result)) =>
        /\ result.decision = DECLINED
        /\ HasViolation(result, "max_nsf_3m")
        /\ ViolationOf(result, "max_nsf_3m").severity = CRITICAL
        /\ ResolveDecision(result.violations, result.ca_compliant, risk_local - 20)
               = result.decision

C27_Witness ==
    /\ Returned
    /\ HighRiskFired(result)
    /\ metrics.total_nsf_3m = 8
    /\ metrics.avg_monthly_revenue = 200000
    /\ result.decision = DECLINED

(* the current call repeats the previous one's metrics under the other kind of
   jurisdiction: one of the two is "CA" *)
CAAndOtherPair ==
    /\ prev.called
    /\ Returned
    /\ prev.metrics = metrics
    /\ (prev.state = "CA") # (state = "CA")

(* C28: for the same metrics the decision under "CA" and the decision under
   another jurisdiction differ only when total_nsf_3m = 5, and a result never
   carries ca_min_revenue without min_monthly_revenue. *)
C28_CADiffersOnlyAtFiveNsf ==
    /\ (CAAndOtherPair /\ prev.result.decision # result.decision)
           => metrics.total_nsf_3m = 5
    /\ (Returned /\ HasViolation(result, "ca_min_revenue"))
           => HasViolation(result, "min_monthly_revenue")

C28_Witness ==
    /\ CAAndOtherPair
    /\ state = "CA"
    /\ metrics.total_nsf_3m = 5
    /\ result.decision = DECLINED
    /\ HasViolation(result, "ca_max_nsf_ratio")
    /\ ~HasViolation(result, "max_nsf_3m")
    /\ prev.result.decision = APPROVED

(* C29: without a CRITICAL violation the score is at most 0.8, before and
   after the cap; the decision is MANUAL_REVIEW exactly when max_nsf_ratio,
   min_avg_balance and balance_to_revenue_ratio are all breached, CONDITIONAL
   exactly when min_avg_balance and exactly one of the two others are, and
   APPROVED otherwise. *)
C29_DecisionWithoutCritical ==
    (Returned /\ SeverityCount(result, CRITICAL) = 0) =>
        LET dense == HasViolation(result, "max_nsf_ratio")
            low_balance == HasViolation(result, "min_avg_balance")
            low_ratio == HasViolation(result, "balance_to_revenue_ratio")
            all_three == dense /\ low_balance /\ low_ratio
            balance_and_one == low_balance /\ (dense # low_ratio)
        IN /\ risk_local <= 80
           /\ result.risk_score <= 80
           /\ (result.decision = MANUAL_REVIEW) <=> all_three
           /\ (result.decision = CONDITIONAL) <=> balance_and_one
           /\ (result.decision = APPROVED) <=> (~all_three /\ ~balance_and_one)

(* the score reaches exactly 0.8 *)
C29_Witness ==
    /\ Returned
    /\ SeverityCount(result, CRITICAL) = 0
    /\ SeverityCount(result, WARNING) = 3
    /\ risk_local = 80
    /\ result.decision = MANUAL_REVIEW


(* the capped base amount of the i-th offer, in tenths of a dollar, taken from
   the request and the evaluation *)
OfferCappedBase(i) ==
    IF OffersEvaluation.max_offer_amount # None /\ OffersEvaluation.max_offer_amount[1] # 0
    THEN Min(OffersRevenue * go_response.offers[i].factor, OffersEvaluation.max_offer_amount[1])
    ELSE OffersRevenue * go_response.offers[i].factor

(* the simplified score the route computes for the request's metrics *)
OffersSimplifiedRisk ==
    LET m == PlainMetrics(RequestMetrics(go_request, go_snapshot)[1])
    IN SimplifiedRiskScore(OffersRevenue, m.avg_daily_balance_3m, m.total_nsf_3m,
                           m.total_days_negative_3m)

(* C22: for every processed tier the value before rounding is
   min(revenue * factor, max_offer_amount) * (1 - 0.3 * risk_score) with the
   evaluator's risk_score, the offer is that value rounded down and carries
   that score, and the adjustment leaves at least 70% of the capped base. *)
C22_AdjustedByEvaluatorRisk ==
    (OffersDone /\ OffersEvaluated) =>
        \A i \in DOMAIN go_response.offers :
            LET expected == OfferCappedBase(i) * (1000 - 3 * OffersEvaluation.risk_score)
            IN /\ OfferAdjustedAmount(i) = Rat(expected, 10000)
               /\ go_response.offers[i].amount = (expected \div 1000000) * 100
               /\ go_response.offers[i].risk_score = OffersEvaluation.risk_score
               /\ expected >= 700 * OfferCappedBase(i)

(* the simplified score differs from the evaluator's and would give another
   amount *)
C22_Witness ==
    /\ OffersDone
    /\ OffersEvaluated
    /\ go_response.offers # <<>>
    /\ OffersSimplifiedRisk # OffersEvaluation.risk_score
    /\ go_response.offers[1].amount #
           ((OfferCappedBase(1) * (1000 - 3 * OffersSimplifiedRisk)) \div 1000000) * 100

(* the request uses the default tier table *)
OffersFromDefaultTiers ==
    go_request.overrides = None \/ Len(go_request.overrides[1].tiers) = 0

(* C30: every offer made from the default tier table is not terms-compliant
   and carries the CA APR issue. *)
C30_DefaultTiersBreachCAApr ==
    (OffersDone /\ OffersFromDefaultTiers) =>
        \A i \in DOMAIN go_response.offers :
            /\ ~go_response.offers[i].terms_compliant
            /\ CA_APR_ISSUE \in Range(go_response.offers[i].compliance_issues)

C30_Witness ==
    /\ OffersDone
    /\ OffersFromDefaultTiers
    /\ Len(go_response.offers) = 3
    /\ \A i \in 1..3 : CA_APR_ISSUE \in Range(go_response.offers[i].compliance_issues)
    /\ go_response.underwriting_decision = CONDITIONAL


(* ---------------- idempotency of generate_offers ---------------- *)
(* requests p and q carry the same tenant, path, Idempotency-Key and body *)
SameRequest(p, q) ==
    /\ ResolveTenant(rq[p].tenant_header) = ResolveTenant(rq[q].tenant_header)
    /\ rq[p].path = rq[q].path
    /\ rq[p].idempotency_key = rq[q].idempotency_key
    /\ rq[p].body = rq[q].body

PastCheck(q) == rq[q].pc \in {"checked", "done"}

(* q is answered with the response p stored, and writes nothing *)
ReplaysResponseOf(q, p) ==
    /\ rq[q].idem_cached = rq[p].response
    /\ rq[q].pc = "done" => (rq[q].response = rq[p].response /\ ~rq[q].created)

(* C24 as stated: a request that arrives while the response stored by an
   earlier request of the same tenant, path, Idempotency-Key and body is less
   than 3600 seconds old returns that response and creates no Offer or Event
   record; and a request answered from a stored entry has the tenant, path,
   key and body of the request that stored it. *)
C24_ReplayOnlyForSameRequest ==
    \A q \in Requests :
        PastCheck(q) =>
            /\ \A p \in rq[q].fresh_then : SameRequest(p, q) => ReplaysResponseOf(q, p)
            /\ rq[q].answered_from # None => SameRequest(rq[q].answered_from[1], q)

(* the dependency of p and of q ran less than the TTL apart *)
ChecksWithinTTL(p, q) ==
    /\ rq[p].checked_at - rq[q].checked_at < TTL
    /\ rq[q].checked_at - rq[p].checked_at < TTL

(* C25 as stated: of two requests with the same tenant, path, Idempotency-Key
   and body, however their steps interleave, at most one persists Offer
   records and the offer.generated event. *)
C25_OffersPersistedOnce ==
    \A p \in Requests : \A q \in Requests \ {p} :
        (SameRequest(p, q) /\ rq[p].pc = "done" /\ rq[q].pc = "done" /\ ChecksWithinTTL(p, q))
            => ~(rq[p].created /\ rq[q].created)


SamePair(d, e) == d.envelope_id = e.envelope_id /\ d.event_type = e.event_type

(* C26: the signing webhook changes no dedup entry, agreement or event, and
   answers nothing but 401, unless a header carries the digest of the body under
   a configured Dropbox Sign or DocuSign secret; and once a delivery of an
   (envelope_id, event_type) pair was processed, every later delivery of that
   pair less than 3600 seconds after it changes nothing and, when its signature
   verifies, returns already_processed: at most one delivery of the pair in
   the window updates the agreement or logs an event. *)
C26_VerifiedAndProcessedOnce ==
    /\ \A i \in 1..Len(deliveries) :
           /\ deliveries[i].changed => deliveries[i].signed
           /\ deliveries[i].outcome # "401" => deliveries[i].signed
    /\ \A i \in 1..Len(deliveries) : \A j \in (i + 1)..Len(deliveries) :
           (/\ SamePair(deliveries[i], deliveries[j])
            /\ deliveries[i].outcome = "processed"
            /\ deliveries[j].at - deliveries[i].at < DedupWindow)
           => /\ ~deliveries[j].changed
              /\ deliveries[j].outcome \in {"already_processed", "401"}

(* a signed completion was processed, and a signed repeat of the pair half an
   hour later was answered already_processed; the agreement is completed and
   one contract.completed event is logged *)
C26_Witness ==
    /\ \E i \in 1..Len(deliveries) : \E j \in (i + 1)..Len(deliveries) :
           /\ SamePair(deliveries[i], deliveries[j])
           /\ deliveries[i].outcome = "processed"
           /\ deliveries[j].signed
           /\ deliveries[j].at = deliveries[i].at + 1800
           /\ deliveries[j].outcome = "already_processed"
    /\ agreements[SentEnvelope] = "completed"
    /\ Len(db_events) = 1
    /\ \E k \in 1..Len(deliveries) : deliveries[k].outcome = "401"
====
